---- MODULE Spec2Model ----
(***************************************************************************)
(* Model of src/src/ir/resources.rs: the translation of a parsed           *)
(* CloudFormation resource tree (ResourceValue) into ResourceIr, the       *)
(* symbol resolver find_ref and the driver translates_resources.           *)
(*                                                                         *)
(* The three functions are pure.  A behaviour of the model is one call:    *)
(* the caller picks the arguments (pc = "idle" -> "done") and the model    *)
(* records what the call produced.  A Rust panic (unwrap on None/Err,      *)
(* index out of bounds) is the outcome "Panic"; a returned                 *)
(* Err(TransmuteError) is the outcome "Err".                               *)
(***************************************************************************)
EXTENDS Integers, Sequences, FiniteSets, TLC

VARIABLES pc, op, parse_tree, resource_value, resource_translator, symbol,
          translated, reference, instructions

vars == <<pc, op, parse_tree, resource_value, resource_translator, symbol,
          translated, reference, instructions>>

(***************************************************************************)
(* Bounds of the model.                                                    *)
(***************************************************************************)
\* longest operand list / sequence drawn as an input
MaxLen == 2
\* most entries of a mapping drawn as an input
MaxKeys == 2
\* most resources of a template drawn as an input
MaxResources == 2

(***************************************************************************)
(* Option<T>: None is the empty sequence, Some(x) the one-element one.     *)
(***************************************************************************)
None == <<>>
Some(x) == <<x>>

(***************************************************************************)
(* Complexity (crate::specification), a two-variant tag.                   *)
(***************************************************************************)
Simple == [kind |-> "Simple", name |-> "String"]
Complex(t) == [kind |-> "Complex", name |-> t]

(***************************************************************************)
(* ResourceValue (crate::parser::resource), the parser's tree.  A mapping  *)
(* is a HashMap: it is held as the sequence of its (key, value) entries in *)
(* the order the HashMap iterates them, keys distinct.                     *)
(***************************************************************************)
RvNull == [tag |-> "Null"]
RvBool(b) == [tag |-> "Bool", b |-> b]
RvNumber(n) == [tag |-> "Number", n |-> n]
RvString(s) == [tag |-> "String", s |-> s]
RvArray(es) == [tag |-> "Array", items |-> es]
RvObject(o) == [tag |-> "Object", entries |-> o]
RvSub(arr) == [tag |-> "Sub", arr |-> arr]
RvFindInMap(mapper, first, second) ==
    [tag |-> "FindInMap", mapper |-> mapper, first |-> first, second |-> second]
RvGetAtt(name, attribute) == [tag |-> "GetAtt", name |-> name, attribute |-> attribute]
RvIf(bool_expr, true_expr, false_expr) ==
    [tag |-> "If", bool_expr |-> bool_expr, true_expr |-> true_expr,
     false_expr |-> false_expr]
RvJoin(x) == [tag |-> "Join", x |-> x]
RvRef(x) == [tag |-> "Ref", ref |-> x]

(***************************************************************************)
(* ResourceIr, the product of the translation.  A HashMap<String,          *)
(* ResourceIr> is a function from its keys.                                *)
(***************************************************************************)
IrNull == [tag |-> "Null"]
IrBool(b) == [tag |-> "Bool", b |-> b]
IrNumber(n) == [tag |-> "Number", n |-> n]
IrString(s) == [tag |-> "String", s |-> s]
IrArray(c, es) == [tag |-> "Array", complexity |-> c, items |-> es]
IrObject(c, h) == [tag |-> "Object", complexity |-> c, props |-> h]
IrIf(c, t, f) == [tag |-> "If", cond |-> c, true_expr |-> t, false_expr |-> f]
IrJoin(sep, irs) == [tag |-> "Join", sep |-> sep, irs |-> irs]
IrRef(r) == [tag |-> "Ref", reference |-> r]
IrGetAtt(n, a) == [tag |-> "GetAtt", name |-> n, attribute |-> a]
IrSub(r) == [tag |-> "Sub", items |-> r]
IrMap(m, f, s) == [tag |-> "Map", mapper |-> m, first |-> f, second |-> s]

(***************************************************************************)
(* Result<ResourceIr, TransmuteError>, and the process abort of a panic.   *)
(***************************************************************************)
Ok(ir) == [kind |-> "Ok", ir |-> ir, msg |-> ""]
Err(msg) == [kind |-> "Err", ir |-> IrNull, msg |-> msg]
Panic(msg) == [kind |-> "Panic", ir |-> IrNull, msg |-> msg]

(***************************************************************************)
(* Reference and Origin (crate::ir::reference).                            *)
(***************************************************************************)
PseudoParameter(p) == [kind |-> "PseudoParameter", pseudo |-> p]
Parameter == [kind |-> "Parameter", pseudo |-> ""]
LogicalId == [kind |-> "LogicalId", pseudo |-> ""]
Reference_new(name, origin) == [name |-> name, origin |-> origin]

\* The built-in pseudo-parameter table of Reference::match_pseudo_parameter.
PseudoParameterNames ==
    {"AWS::AccountId", "AWS::Region", "AWS::Partition", "AWS::StackName",
     "AWS::StackId", "AWS::NoValue", "AWS::NotificationARNs"}

\* Reference::match_pseudo_parameter: Some(kind) on an exact match.
match_pseudo_parameter(x) ==
    IF x \in PseudoParameterNames THEN Some(x) ELSE None

(***************************************************************************)
(* The specification database returned by spec(): resource types and       *)
(* property types, each with optional declared properties whose rule       *)
(* gives a Complexity.  "Ghost" is referenced and not declared.            *)
(***************************************************************************)
spec ==
    [resource_types |->
        [t \in {"X"} |->
            [properties |-> Some(
                [p \in {"P", "S", "Q", "G"} |->
                    CASE p = "P" -> Complex("XProp")
                      [] p = "S" -> Simple
                      [] p = "Q" -> Complex("YProp")
                      [] p = "G" -> Complex("Ghost")])]],
     property_types |->
        [t \in {"XProp", "YProp"} |->
            IF t = "XProp"
            THEN [properties |-> Some(
                    [p \in {"Q", "R", "G"} |->
                        CASE p = "Q" -> Simple
                          [] p = "R" -> Complex("YProp")
                          [] p = "G" -> Complex("Ghost")])]
            ELSE [properties |-> Some(
                    [p \in {"A", "Q"} |->
                        CASE p = "A" -> Simple
                          [] p = "Q" -> Complex("XProp")])]]]

\* PropertyRule::get_complexity: the rule is held as its complexity.
get_complexity(property_rule) == property_rule

\* Specification::full_property_name: the property type a complexity names.
full_property_name(complexity, resource_type) ==
    IF complexity.kind = "Complex" THEN Some(complexity.name) ELSE None

(***************************************************************************)
(* crate::parser::sub::sub_parse_tree: the template string cut into        *)
(* literal text and ${variable} fragments, in order.  An unterminated ${   *)
(* is a parse error.                                                       *)
(***************************************************************************)
SubString(s) == [kind |-> "String", text |-> s]
SubVariable(s) == [kind |-> "Variable", text |-> s]

RECURSIVE FindFrom(_, _, _)
\* the least j >= i where pat starts in s, or 0
FindFrom(s, pat, i) ==
    IF i + Len(pat) - 1 > Len(s) THEN 0
    ELSE IF SubSeq(s, i, i + Len(pat) - 1) = pat THEN i
    ELSE FindFrom(s, pat, i + 1)

RECURSIVE sub_fragments(_, _)
\* the fragments of s from position i; <<"error">> marks a parse failure
sub_fragments(s, i) ==
    IF i > Len(s) THEN <<>>
    ELSE IF FindFrom(s, "${", i) = i
    THEN LET close == FindFrom(s, "}", i + 2) IN
         IF close = 0 THEN <<[kind |-> "Error", text |-> ""]>>
         ELSE <<SubVariable(SubSeq(s, i + 2, close - 1))>>
              \o sub_fragments(s, close + 1)
    ELSE LET open == FindFrom(s, "${", i)
             stop == IF open = 0 THEN Len(s) + 1 ELSE open IN
         <<SubString(SubSeq(s, i, stop - 1))>> \o sub_fragments(s, stop)

sub_parse_tree(s) ==
    LET fs == sub_fragments(s, 1) IN
    IF \E i \in 1..Len(fs) : fs[i].kind = "Error"
    THEN [ok |-> FALSE, vars |-> <<>>, msg |-> "invalid sub template"]
    ELSE [ok |-> TRUE, vars |-> fs, msg |-> ""]

\* find_ref with the parameter loop ahead of the pseudo-parameter match
find_ref_params_first(x, tree) ==
    IF \E name \in tree.params : name = x
    THEN Reference_new(x, Parameter)
    ELSE IF match_pseudo_parameter(x) # None
    THEN Reference_new(x, PseudoParameter(match_pseudo_parameter(x)[1]))
    ELSE Reference_new(x, LogicalId)

(***************************************************************************)
(* find_ref: pseudo-parameter first, then a declared parameter, else a     *)
(* logical id.  parse_tree.parameters.params is held as the set of its     *)
(* names, the only part the loop reads.                                    *)
(***************************************************************************)
find_ref(x, tree) ==
    LET opt_pseudo == match_pseudo_parameter(x) IN
    IF opt_pseudo # None
    THEN Reference_new(x, PseudoParameter(opt_pseudo[1]))
    ELSE IF \E name \in tree.params : name = x
    THEN Reference_new(x, Parameter)
    ELSE Reference_new(x, LogicalId)

(***************************************************************************)
(* ResourceTranslationInputs.  The specification is the global spec.       *)
(***************************************************************************)
ResourceTranslationInputs(tree, complexity, property_type, resource_type) ==
    [parse_tree |-> tree, complexity |-> complexity,
     property_type |-> property_type, resource_type |-> resource_type]

RECURSIVE translate_resource(_, _)

\* A loop "for v in vs { translate_resource(v, rt)? }": the results up to and
\* including the first one that is not Ok.
RECURSIVE translate_each(_, _)
translate_each(vs, rt) ==
    IF vs = <<>> THEN <<>>
    ELSE LET r == translate_resource(Head(vs), rt) IN
         IF r.kind = "Ok" THEN <<r>> \o translate_each(Tail(vs), rt) ELSE <<r>>

\* whether such a loop ran to its end
AllOk(rs, n) == Len(rs) = n /\ \A i \in 1..Len(rs) : rs[i].kind = "Ok"

\* the irs such a loop collected
Irs(rs) == [i \in 1..Len(rs) |-> rs[i].ir]

\* translate_array with its elements translated as schema-free values
translate_array_simple_elements(parse_resource_vec, rt) ==
    LET rs == translate_each(parse_resource_vec,
                [rt EXCEPT !.complexity = Simple, !.property_type = None]) IN
    IF AllOk(rs, Len(parse_resource_vec))
    THEN Ok(IrArray(rt.complexity, Irs(rs)))
    ELSE rs[Len(rs)]

\* ResourceValue::Array
translate_array(parse_resource_vec, rt) ==
    LET rs == translate_each(parse_resource_vec, rt) IN
    IF AllOk(rs, Len(parse_resource_vec))
    THEN Ok(IrArray(rt.complexity, Irs(rs)))
    ELSE rs[Len(rs)]

\* complex_child with the key looked up in the owning resource type's properties
complex_child_of_resource_type(s, rt) ==
    IF rt.resource_type \notin DOMAIN spec.resource_types
    THEN [ok |-> FALSE, rt |-> rt]
    ELSE LET properties == spec.resource_types[rt.resource_type].properties[1] IN
         IF s \notin DOMAIN properties
         THEN [ok |-> FALSE, rt |-> rt]
         ELSE [ok |-> TRUE,
               rt |-> [rt EXCEPT
                    !.complexity = get_complexity(properties[s]),
                    !.property_type =
                        full_property_name(get_complexity(properties[s]),
                                           rt.resource_type)]]

\* The child context of key s under Complexity::Complex: every unwrap on a
\* missing entry panics.
complex_child(s, rt) ==
    IF rt.property_type = None
    THEN [ok |-> FALSE, rt |-> rt]
    ELSE IF rt.property_type[1] \notin DOMAIN spec.property_types
    THEN [ok |-> FALSE, rt |-> rt]
    ELSE LET rule == spec.property_types[rt.property_type[1]] IN
         IF rule.properties = None
         THEN [ok |-> FALSE, rt |-> rt]
         ELSE LET properties == rule.properties[1] IN
              IF s \notin DOMAIN properties
              THEN [ok |-> FALSE, rt |-> rt]
              ELSE LET property_rule == properties[s] IN
                   [ok |-> TRUE,
                    rt |-> [rt EXCEPT
                        !.complexity = get_complexity(property_rule),
                        !.property_type =
                            full_property_name(get_complexity(property_rule),
                                               rt.resource_type)]]

\* the match on resource_translator.complexity for one entry (s, rv)
object_property(s, rv, rt) ==
    IF rt.complexity.kind = "Simple"
    THEN translate_resource(rv, rt)
    ELSE LET new_rt == complex_child(s, rt) IN
         IF new_rt.ok
         THEN translate_resource(rv, new_rt.rt)
         ELSE Panic("called Option::unwrap() on a None value")

\* the loop over the entries of a mapping, to the first result that is not Ok
RECURSIVE object_entries(_, _)
object_entries(o, rt) ==
    IF o = <<>> THEN <<>>
    ELSE LET r == object_property(o[1][1], o[1][2], rt) IN
         IF r.kind = "Ok" THEN <<r>> \o object_entries(Tail(o), rt) ELSE <<r>>

\* the keys of a mapping
Keys(o) == {o[i][1] : i \in 1..Len(o)}

\* the position of key k in a mapping
IndexOf(o, k) == CHOOSE i \in 1..Len(o) : o[i][1] = k

\* ResourceValue::Object
translate_object(o, rt) ==
    LET rs == object_entries(o, rt) IN
    IF AllOk(rs, Len(o))
    THEN Ok(IrObject(rt.complexity, [k \in Keys(o) |-> rs[IndexOf(o, k)].ir]))
    ELSE rs[Len(rs)]

\* insert_all that keeps the entry an earlier operand inserted
insert_all_keep_first(excess_map, obj, rs) ==
    [k \in DOMAIN excess_map \cup Keys(obj) |->
        IF k \in DOMAIN excess_map THEN excess_map[k] ELSE rs[IndexOf(obj, k)].ir]

\* HashMap::insert of every (key, translated value) of one override object
insert_all(excess_map, obj, rs) ==
    [k \in DOMAIN excess_map \cup Keys(obj) |->
        IF k \in Keys(obj) THEN rs[IndexOf(obj, k)].ir ELSE excess_map[k]]

\* the loop over the operands after the first of a Sub
RECURSIVE sub_excess_map(_, _, _)
sub_excess_map(objs, rt, excess_map) ==
    IF objs = <<>> THEN [res |-> Ok(IrNull), map |-> excess_map]
    ELSE IF Head(objs).tag # "Object"
    THEN [res |-> Err("Sub excess map must be an object"), map |-> excess_map]
    ELSE LET obj == Head(objs).entries
             rs == translate_each([i \in 1..Len(obj) |-> obj[i][2]], rt) IN
         IF AllOk(rs, Len(obj))
         THEN sub_excess_map(Tail(objs), rt, insert_all(excess_map, obj, rs))
         ELSE [res |-> rs[Len(rs)], map |-> excess_map]

\* one fragment of the parsed template
sub_fragment(x, excess_map, rt) ==
    IF x.kind = "String" THEN IrString(x.text)
    ELSE IF x.text \in DOMAIN excess_map THEN excess_map[x.text]
    ELSE IrRef(find_ref(x.text, rt.parse_tree))

\* translate_sub with the fragments collected back to front
translate_sub_reversed(arr, rt) ==
    IF arr = <<>> THEN Panic("index out of bounds")
    ELSE IF arr[1].tag # "String" THEN Err("First value in sub must be a string")
    ELSE LET excess == sub_excess_map(Tail(arr), rt, <<>>) IN
         IF excess.res.kind # "Ok" THEN excess.res
         ELSE LET parsed == sub_parse_tree(arr[1].s) IN
              IF ~parsed.ok THEN Err(parsed.msg)
              ELSE Ok(IrSub([i \in 1..Len(parsed.vars) |->
                        sub_fragment(parsed.vars[Len(parsed.vars) + 1 - i],
                                     excess.map, rt)]))

\* ResourceValue::Sub
translate_sub(arr, rt) ==
    IF arr = <<>> THEN Panic("index out of bounds")
    ELSE IF arr[1].tag # "String" THEN Err("First value in sub must be a string")
    ELSE LET excess == sub_excess_map(Tail(arr), rt, <<>>) IN
         IF excess.res.kind # "Ok" THEN excess.res
         ELSE LET parsed == sub_parse_tree(arr[1].s) IN
              IF ~parsed.ok THEN Err(parsed.msg)
              ELSE Ok(IrSub([i \in 1..Len(parsed.vars) |->
                        sub_fragment(parsed.vars[i], excess.map, rt)]))

\* ResourceValue::FindInMap
translate_find_in_map(mapper, first, second, rt) ==
    LET rs == translate_each(<<mapper, first, second>>, rt) IN
    IF AllOk(rs, 3) THEN Ok(IrMap(rs[1].ir, rs[2].ir, rs[3].ir)) ELSE rs[Len(rs)]

\* ResourceValue::GetAtt
translate_get_att(name, attribute) ==
    IF name.tag # "String" THEN Err("Get attribute first element must be a string")
    ELSE IF attribute.tag # "String"
    THEN Err("Get attribute first element must be a string")
    ELSE Ok(IrGetAtt(name.s, attribute.s))

\* ResourceValue::If
translate_if(bool_expr, true_expr, false_expr, rt) ==
    IF bool_expr.tag # "String"
    THEN Err("Resource value if statement truth must be a string")
    ELSE LET rs == translate_each(<<true_expr, false_expr>>, rt) IN
         IF AllOk(rs, 2) THEN Ok(IrIf(bool_expr.s, rs[1].ir, rs[2].ir))
         ELSE rs[Len(rs)]

\* translate_join without the skip(1): the separator is translated as an operand
translate_join_no_skip(x, rt) ==
    IF x = <<>> THEN Panic("called Option::unwrap() on a None value")
    ELSE IF x[1].tag # "String" THEN Err("Separator for join must be a string")
    ELSE LET rs == translate_each(x, rt) IN
         IF AllOk(rs, Len(x)) THEN Ok(IrJoin(x[1].s, Irs(rs)))
         ELSE rs[Len(rs)]

\* ResourceValue::Join
translate_join(x, rt) ==
    IF x = <<>> THEN Panic("called Option::unwrap() on a None value")
    ELSE IF x[1].tag # "String" THEN Err("Separator for join must be a string")
    ELSE LET rs == translate_each(Tail(x), rt) IN
         IF AllOk(rs, Len(x) - 1) THEN Ok(IrJoin(x[1].s, Irs(rs)))
         ELSE rs[Len(rs)]

translate_resource(v, rt) ==
    CASE v.tag = "Null" -> Ok(IrNull)
      [] v.tag = "Bool" -> Ok(IrBool(v.b))
      [] v.tag = "Number" -> Ok(IrNumber(v.n))
      [] v.tag = "String" -> Ok(IrString(v.s))
      [] v.tag = "Array" -> translate_array(v.items, rt)
      [] v.tag = "Object" -> translate_object(v.entries, rt)
      [] v.tag = "Sub" -> translate_sub(v.arr, rt)
      [] v.tag = "FindInMap" -> translate_find_in_map(v.mapper, v.first, v.second, rt)
      [] v.tag = "GetAtt" -> translate_get_att(v.name, v.attribute)
      [] v.tag = "If" -> translate_if(v.bool_expr, v.true_expr, v.false_expr, rt)
      [] v.tag = "Join" -> translate_join(v.x, rt)
      [] v.tag = "Ref" -> Ok(IrRef(find_ref(v.ref, rt.parse_tree)))

(***************************************************************************)
(* translates_resources: one ResourceInstruction per resource, in order.   *)
(* It returns no Result: every failure below it is an unwrap that panics.  *)
(***************************************************************************)
ResourceInstruction(name, condition, resource_type, properties) ==
    [name |-> name, condition |-> condition, resource_type |-> resource_type,
     properties |-> properties]

\* the context of top-level property `name` of `resource`
property_inputs(name, resource, tree) ==
    IF resource.resource_type \notin DOMAIN spec.resource_types
    THEN [ok |-> FALSE, rt |-> None]
    ELSE LET resource_spec == spec.resource_types[resource.resource_type].properties IN
         IF resource_spec = None THEN [ok |-> FALSE, rt |-> None]
         ELSE IF name \notin DOMAIN resource_spec[1] THEN [ok |-> FALSE, rt |-> None]
         ELSE LET property_rule == resource_spec[1][name]
                  complexity == get_complexity(property_rule) IN
              [ok |-> TRUE,
               rt |-> Some(ResourceTranslationInputs(tree, complexity,
                        full_property_name(complexity, resource.resource_type),
                        resource.resource_type))]

\* the body of the loop over resource.properties for one (name, prop)
translate_property(name, prop, resource, tree) ==
    LET inputs == property_inputs(name, resource, tree) IN
    IF ~inputs.ok THEN Panic("called Option::unwrap() on a None value")
    ELSE LET ir == translate_resource(prop, inputs.rt[1]) IN
         IF ir.kind = "Err" THEN Panic("called Result::unwrap() on an Err value")
         ELSE ir

\* the loop over resource.properties: the result of every (name, prop)
translate_properties(props, resource, tree) ==
    [i \in 1..Len(props) |-> translate_property(props[i][1], props[i][2], resource, tree)]

\* the properties HashMap the loop filled
properties_map(props, rs) ==
    [k \in Keys(props) |-> rs[IndexOf(props, k)].ir]

\* one iteration of the loop over parse_tree.resources.resources: the
\* instruction pushed, or the panic of an unwrap
translate_one_resource(resource, tree) ==
    IF resource.resource_type \notin DOMAIN spec.resource_types
    THEN [kind |-> "Panic", instructions |-> <<>>]
    ELSE IF \E i \in 1..Len(resource.properties) :
                translate_property(resource.properties[i][1],
                    resource.properties[i][2], resource, tree).kind # "Ok"
    THEN [kind |-> "Panic", instructions |-> <<>>]
    ELSE [kind |-> "Ok",
          instructions |-> <<ResourceInstruction(resource.name,
                resource.condition, resource.resource_type,
                properties_map(resource.properties,
                    translate_properties(resource.properties, resource, tree)))>>]

\* the loop over the resources: a panic in any iteration aborts the call
resources_loop(resources, tree) ==
    IF \E i \in 1..Len(resources) :
            translate_one_resource(resources[i], tree).kind # "Ok"
    THEN [kind |-> "Panic", instructions |-> <<>>]
    ELSE [kind |-> "Ok",
          instructions |->
            [i \in 1..Len(resources) |->
                translate_one_resource(resources[i], tree).instructions[1]]]

translates_resources(tree) == resources_loop(tree.resources, tree)

(***************************************************************************)
(* The inputs the calls are made on.                                       *)
(***************************************************************************)
\* the sequences over S of length at most n
Seqs(S, n) == UNION {[1..k -> S] : k \in 0..n}

\* the mappings with keys in Ks, values in Vs and at most n entries, in every
\* iteration order
Entries(Ks, Vs, n) ==
    {e \in Seqs(Ks \X Vs, n) :
        \A i \in 1..Len(e) : \A j \in 1..Len(e) : i # j => e[i][1] # e[j][1]}

Atoms ==
    {RvNull, RvBool(TRUE), RvNumber(1), RvString("v"), RvString(","),
     RvRef("A"), RvRef("B"), RvRef("AWS::Region")}

\* operands of the first layer of nesting
Leaves == {RvString("v"), RvNumber(1), RvRef("A")}

\* a join whose separator is a number: an error wherever it is translated
BadJoin == RvJoin(<<RvNumber(1)>>)

\* the mapping {Q: "v"}: Q is a key XProp and YProp declare
QvObject == RvObject(<<<<"Q", RvString("v")>>>>)

\* the mapping {Z: "v"}: Z is a key no type declares
ZvObject == RvObject(<<<<"Z", RvString("v")>>>>)

\* operands of the second layer: leaves, mappings of declared and undeclared
\* keys, a nested Complex mapping, a sequence of mappings, a malformed join
\* and a join with no operand at all
Nested ==
    {RvString("v"), RvRef("A"), QvObject, ZvObject,
     RvObject(<<<<"R", QvObject>>>>), RvArray(<<QvObject>>), BadJoin, RvJoin(<<>>)}

ObjectKeys == {"Q", "R", "Z"}

Separators == {RvString(","), RvNumber(1)}

Guards == {RvString("IsProd"), RvNumber(1)}

Templates == {"${A}", "${A}-x-${B}", "x${A", "${AWS::Region}"}

\* the operands after the first of a substitution: override objects for A
\* (a literal, a malformed join, mappings of undeclared and declared keys), for B, for
\* both in either iteration order, and an operand that is no mapping
SubOperands ==
    {RvObject(e) : e \in Entries({"A"},
        {RvString("lit"), RvString("lit2"), BadJoin, ZvObject, QvObject}, MaxKeys)}
    \cup {RvObject(<<<<"B", RvString("lit")>>>>),
          RvObject(<<<<"A", BadJoin>>, <<"B", ZvObject>>>>),
          RvObject(<<<<"B", ZvObject>>, <<"A", BadJoin>>>>),
          RvString("v")}

Arrays(K) == {RvArray(es) : es \in Seqs(K, MaxLen)}
Objects(K) == {RvObject(o) : o \in Entries(ObjectKeys, K, MaxKeys)}
Joins(K) ==
    {RvJoin(<<>>)}
    \cup {RvJoin(<<sep>> \o rest) : sep \in Separators, rest \in Seqs(K, MaxLen)}
Ifs(K) == {RvIf(g, t, f) : g \in Guards, t \in K, f \in K}
FindInMaps(K) == {RvFindInMap(m, f, s) : m \in K, f \in K, s \in K}
GetAtts ==
    {RvGetAtt(n, a) : n \in {RvString("B"), RvRef("A")},
                      a \in {RvString("Arn"), RvNumber(1)}}
Subs ==
    {RvSub(<<>>)}
    \cup {RvSub(<<first>> \o rest) :
            first \in {RvString(t) : t \in Templates} \cup {RvNumber(1)},
            rest \in Seqs(SubOperands, MaxLen)}

Composites(K) == Arrays(K) \cup Objects(K) \cup Joins(K) \cup Ifs(K) \cup FindInMaps(K)

ResourceValues == Atoms \cup Composites(Leaves) \cup Composites(Nested) \cup GetAtts \cup Subs

\* the complexities some property rule of the specification declares
Complexities ==
    UNION {{spec.resource_types[t].properties[1][p] :
                p \in DOMAIN spec.resource_types[t].properties[1]} :
            t \in DOMAIN spec.resource_types}
    \cup UNION {{spec.property_types[t].properties[1][p] :
                p \in DOMAIN spec.property_types[t].properties[1]} :
            t \in DOMAIN spec.property_types}

ParamSets == SUBSET {"A", "AWS::Region"}

SymbolNames == {"A", "B", "AWS::Region", "AWS::NoValue"}

Resource(name, resource_type, properties) ==
    [name |-> name, resource_type |-> resource_type, condition |-> None,
     properties |-> properties]

\* resources of the declared type X with properties P (declared Complex(XProp))
\* and U (not declared), and a resource of a type the specification lacks
Resources ==
    {Resource("B", "X", ps) :
        ps \in Entries({"P", "U"},
            {QvObject, ZvObject, BadJoin}, MaxKeys)}
    \cup {Resource("A", "Nope", <<>>)}

ParseTree(resources, params) == [resources |-> resources, params |-> params]

(***************************************************************************)
(* One call per behaviour.                                                 *)
(***************************************************************************)
Init ==
    /\ pc = "idle"
    /\ op = "none"
    /\ parse_tree = ParseTree(<<>>, {})
    /\ resource_value = RvNull
    /\ resource_translator = ResourceTranslationInputs(ParseTree(<<>>, {}), Simple, None, "X")
    /\ symbol = ""
    /\ translated = Ok(IrNull)
    /\ reference = Reference_new("", LogicalId)
    /\ instructions = [kind |-> "Ok", instructions |-> <<>>]

\* translate_resource(resource_value, resource_translator), on a context the
\* driver or a Complex descent builds
TranslateResource ==
    /\ pc = "idle"
    /\ \E v \in ResourceValues, c \in Complexities, ps \in ParamSets :
        LET tree == ParseTree(<<>>, ps)
            rt == ResourceTranslationInputs(tree, c, full_property_name(c, "X"), "X")
        IN /\ parse_tree' = tree
           /\ resource_value' = v
           /\ resource_translator' = rt
           /\ translated' = translate_resource(v, rt)
    /\ pc' = "done"
    /\ op' = "translate_resource"
    /\ UNCHANGED <<symbol, reference, instructions>>

\* find_ref(symbol, parse_tree)
FindRef ==
    /\ pc = "idle"
    /\ \E x \in SymbolNames, ps \in ParamSets,
          rs \in Seqs({Resource("A", "X", <<>>), Resource("B", "X", <<>>)}, MaxResources) :
        /\ parse_tree' = ParseTree(rs, ps)
        /\ symbol' = x
        /\ reference' = find_ref(x, ParseTree(rs, ps))
    /\ pc' = "done"
    /\ op' = "find_ref"
    /\ UNCHANGED <<resource_value, resource_translator, translated, instructions>>

\* translates_resources(parse_tree)
TranslatesResources ==
    /\ pc = "idle"
    /\ \E rs \in Seqs(Resources, MaxResources), ps \in ParamSets :
        /\ parse_tree' = ParseTree(rs, ps)
        /\ instructions' = translates_resources(ParseTree(rs, ps))
    /\ pc' = "done"
    /\ op' = "translates_resources"
    /\ UNCHANGED <<resource_value, resource_translator, symbol, translated, reference>>

Next == TranslateResource \/ FindRef \/ TranslatesResources

Spec == Init /\ [][Next]_vars

(***************************************************************************)
(* What the claims are stated in.                                          *)
(***************************************************************************)
\* the call made was translate_resource on a value of shape `tag`
Translated(tag) == op = "translate_resource" /\ resource_value.tag = tag

\* the context with complexity c that shares everything else with rt
ContextWith(rt, c) ==
    [parse_tree |-> rt.parse_tree, complexity |-> c,
     property_type |-> IF c.kind = "Complex" THEN <<c.name>> ELSE <<>>,
     resource_type |-> rt.resource_type]

\* the reference the fixed priority gives name n over the parameters ps
ResolvedBy(n, ps) ==
    [name |-> n,
     origin |-> IF n \in PseudoParameterNames
                THEN [kind |-> "PseudoParameter", pseudo |-> n]
                ELSE IF n \in ps THEN [kind |-> "Parameter", pseudo |-> ""]
                ELSE [kind |-> "LogicalId", pseudo |-> ""]]

\* the value of key k in mapping o
ValueOf(o, k) == o[IndexOf(o, k)][2]

\* the positions of the override operands of a substitution that hold key n
Overriding(arr, n) ==
    {j \in 2..Len(arr) : arr[j].tag = "Object" /\ n \in Keys(arr[j].entries)}

Greatest(S) == CHOOSE j \in S : \A k \in S : k <= j

\* C1: a mapping translated under Complex(T) gives Object(Complex(T), ...) over
\* exactly the input's keys, every key is one T declares in property_types, and
\* its value is what the translation of the entry's value gives under the
\* context of the complexity T declares for that key; {Q: "v"} for property P
\* of X (Complex(XProp), Q Simple in XProp) gives
\* Object(Complex(XProp), {Q: String("v")}).
C1_ComplexKeysFromPropertyType ==
    /\ (Translated("Object") /\ resource_translator.complexity.kind = "Complex"
            /\ translated.kind = "Ok")
        => LET T == resource_translator.complexity.name
               o == resource_value.entries IN
           /\ translated.ir.tag = "Object"
           /\ translated.ir.complexity = Complex(T)
           /\ DOMAIN translated.ir.props = Keys(o)
           /\ \A i \in 1..Len(o) :
                /\ T \in DOMAIN spec.property_types
                /\ o[i][1] \in DOMAIN spec.property_types[T].properties[1]
                /\ translated.ir.props[o[i][1]] =
                     translate_resource(o[i][2],
                        ContextWith(resource_translator,
                            spec.property_types[T].properties[1][o[i][1]])).ir
    /\ (Translated("Object") /\ resource_value = QvObject
            /\ resource_translator.complexity = Complex("XProp"))
        => translated = Ok(IrObject(Complex("XProp"), [k \in {"Q"} |-> IrString("v")]))
    /\ (op = "translates_resources"
            /\ parse_tree.resources = <<Resource("B", "X", <<<<"P", QvObject>>>>)>>)
        => /\ instructions.kind = "Ok"
           /\ instructions.instructions[1].properties =
                [p \in {"P"} |->
                    IrObject(Complex("XProp"), [k \in {"Q"} |-> IrString("v")])]

\* C1's case: under Complex(XProp) the mapping {R: {Q: "v"}, Q: "v"} came out
\* with R's value traversed per YProp, the type XProp declares for R
C1_Witness ==
    /\ Translated("Object")
    /\ resource_translator.complexity = Complex("XProp")
    /\ resource_value = RvObject(<<<<"R", QvObject>>, <<"Q", RvString("v")>>>>)
    /\ translated.kind = "Ok"
    /\ translated.ir.props["R"].complexity = Complex("YProp")

\* the call meets a specification lookup failure at its own level
LookupFailure ==
    \/ /\ Translated("Object")
       /\ resource_translator.complexity.kind = "Complex"
       /\ resource_value.entries # <<>>
       /\ \/ resource_translator.complexity.name \notin DOMAIN spec.property_types
          \/ \E k \in Keys(resource_value.entries) :
                k \notin DOMAIN spec.property_types[
                            resource_translator.complexity.name].properties[1]
    \/ /\ op = "translates_resources"
       /\ \E i \in 1..Len(parse_tree.resources) :
            LET r == parse_tree.resources[i] IN
            \/ r.resource_type \notin DOMAIN spec.resource_types
            \/ \E k \in Keys(r.properties) :
                k \notin DOMAIN spec.resource_types[r.resource_type].properties[1]

\* C2: a specification lookup failure (resource type, top-level property,
\* nested property type or mapping key absent) ends the call in a reported
\* error, never in a process abort.
C2_LookupFailureReported ==
    LookupFailure =>
        /\ op = "translate_resource" => translated.kind = "Err"
        /\ op = "translates_resources" => instructions.kind # "Panic"

\* C3: find_ref returns the input name, with origin PseudoParameter when the
\* name is a pseudo-parameter (even if a parameter of that name is declared),
\* else Parameter when a parameter of that name is declared, else LogicalId,
\* whatever the resource list.
C3_FindRefPriority ==
    op = "find_ref" => reference = ResolvedBy(symbol, parse_tree.params)

\* C3's case: a pseudo-parameter name that is also a declared parameter, in a
\* template that has resources
C3_Witness ==
    /\ op = "find_ref"
    /\ symbol = "AWS::Region"
    /\ symbol \in parse_tree.params
    /\ parse_tree.resources # <<>>
    /\ reference.origin.kind = "PseudoParameter"

\* C4: a substitution over a string template gives one element per fragment of
\* the parsed template, in order: String(s) for literal text s, and for a
\* variable no override object holds, the Ref of that variable; "${A}-x-${B}"
\* alone gives [Ref(A), String("-x-"), Ref(B)].
C4_SubFragmentsInOrder ==
    /\ (Translated("Sub") /\ resource_value.arr # <<>>
            /\ resource_value.arr[1].tag = "String" /\ translated.kind = "Ok")
        => LET frags == sub_parse_tree(resource_value.arr[1].s).vars
               items == translated.ir.items IN
           /\ translated.ir.tag = "Sub"
           /\ Len(items) = Len(frags)
           /\ \A i \in 1..Len(frags) :
                /\ frags[i].kind = "String" => items[i] = IrString(frags[i].text)
                /\ (frags[i].kind = "Variable"
                        /\ Overriding(resource_value.arr, frags[i].text) = {})
                    => /\ items[i].tag = "Ref"
                       /\ items[i].reference.name = frags[i].text
    /\ (Translated("Sub") /\ resource_value = RvSub(<<RvString("${A}-x-${B}")>>))
        => /\ translated.kind = "Ok"
           /\ translated.ir =
                IrSub(<<IrRef(ResolvedBy("A", parse_tree.params)), IrString("-x-"),
                        IrRef(ResolvedBy("B", parse_tree.params))>>)

\* C4's case: "${A}-x-${B}" with no override object was translated
C4_Witness ==
    /\ Translated("Sub")
    /\ resource_value = RvSub(<<RvString("${A}-x-${B}")>>)
    /\ translated.kind = "Ok"
    /\ Len(translated.ir.items) = 3

\* C5: in a substitution, a variable n that some override object holds becomes
\* the translation of the value the last such operand gives n; a variable no
\* override object holds becomes Ref(find_ref(n)).
C5_OverridePrecedence ==
    (Translated("Sub") /\ resource_value.arr # <<>>
        /\ resource_value.arr[1].tag = "String" /\ translated.kind = "Ok")
    => LET arr == resource_value.arr
           frags == sub_parse_tree(arr[1].s).vars IN
       \A i \in 1..Len(frags) :
           frags[i].kind = "Variable" =>
               LET n == frags[i].text
                   js == Overriding(arr, n) IN
               IF js = {}
               THEN translated.ir.items[i] = IrRef(ResolvedBy(n, parse_tree.params))
               ELSE translated.ir.items[i] =
                        translate_resource(ValueOf(arr[Greatest(js)].entries, n),
                                           resource_translator).ir

\* C5's case: two override objects hold A and the later one's value was used
C5_Witness ==
    /\ Translated("Sub")
    /\ resource_value =
        RvSub(<<RvString("${A}"), RvObject(<<<<"A", RvString("lit")>>>>),
                RvObject(<<<<"A", RvString("lit2")>>>>)>>)
    /\ translated = Ok(IrSub(<<IrString("lit2")>>))

\* C6: a join with a string separator s whose n >= 0 further operands all
\* translate gives Join(s, [translate(op_1), ..., translate(op_n)]) in source
\* order; a separator alone gives Join(s, []).
C6_JoinOperandsInOrder ==
    /\ (Translated("Join") /\ resource_value.x # <<>>
            /\ resource_value.x[1].tag = "String"
            /\ \A i \in 2..Len(resource_value.x) :
                translate_resource(resource_value.x[i], resource_translator).kind = "Ok")
        => translated =
            Ok(IrJoin(resource_value.x[1].s,
                [i \in 1..(Len(resource_value.x) - 1) |->
                    translate_resource(resource_value.x[i + 1],
                                       resource_translator).ir]))
    /\ (Translated("Join") /\ resource_value = RvJoin(<<RvString(",")>>))
        => translated = Ok(IrJoin(",", <<>>))

\* C6's case: a join of two different operands came out in source order
C6_Witness ==
    /\ Translated("Join")
    /\ resource_value = RvJoin(<<RvString(","), RvNumber(1), RvString("v")>>)
    /\ translated = Ok(IrJoin(",", <<IrNumber(1), IrString("v")>>))

\* the value is an intrinsic whose operands have a wrong shape
Malformed(v) ==
    \/ v.tag = "Join" /\ v.x # <<>> /\ v.x[1].tag # "String"
    \/ v.tag = "Sub" /\ v.arr # <<>> /\ v.arr[1].tag # "String"
    \/ v.tag = "Sub" /\ \E j \in 2..Len(v.arr) : v.arr[j].tag # "Object"
    \/ v.tag = "If" /\ v.bool_expr.tag # "String"
    \/ v.tag = "GetAtt" /\ (v.name.tag # "String" \/ v.attribute.tag # "String")

\* C7: translate_resource of a malformed intrinsic returns an error value, and
\* for a join with a separator that is no string the message names the join.
C7_MalformedIsError ==
    (op = "translate_resource" /\ Malformed(resource_value))
    => /\ translated.kind = "Err"
       /\ (resource_value.tag = "Join")
            => translated.msg = "Separator for join must be a string"

\* the results of translating the sub-values translate_resource descends into,
\* each under the context its descent gives it
ChildResults(v, rt) ==
    CASE v.tag = "Array" -> {translate_resource(v.items[i], rt) : i \in 1..Len(v.items)}
      [] v.tag = "Object" /\ rt.complexity.kind = "Simple" ->
            {translate_resource(v.entries[i][2], rt) : i \in 1..Len(v.entries)}
      [] v.tag = "Object" /\ rt.complexity.kind = "Complex" ->
            {translate_resource(v.entries[i][2],
                    ContextWith(rt, spec.property_types[rt.complexity.name]
                                        .properties[1][v.entries[i][1]])) :
                i \in {j \in 1..Len(v.entries) :
                        /\ rt.complexity.name \in DOMAIN spec.property_types
                        /\ v.entries[j][1] \in DOMAIN spec.property_types[
                                rt.complexity.name].properties[1]}}
      [] v.tag = "If" -> {translate_resource(v.true_expr, rt),
                          translate_resource(v.false_expr, rt)}
      [] v.tag = "Join" -> {translate_resource(v.x[i], rt) : i \in 2..Len(v.x)}
      [] v.tag = "FindInMap" -> {translate_resource(v.mapper, rt),
                                 translate_resource(v.first, rt),
                                 translate_resource(v.second, rt)}
      [] v.tag = "Sub" ->
            UNION {{translate_resource(v.arr[j].entries[i][2], rt) :
                        i \in 1..Len(v.arr[j].entries)} :
                    j \in {k \in 2..Len(v.arr) : v.arr[k].tag = "Object"}}
      [] OTHER -> {}

\* C8: when the translation of a sub-value returns an error, translate_resource
\* of the enclosing value returns an error.
C8_ShortCircuit ==
    (op = "translate_resource"
        /\ \E r \in ChildResults(resource_value, resource_translator) : r.kind = "Err")
    => translated.kind = "Err"

\* C9: descent through a sequence, a mapping under Simple, a conditional, a
\* join, a map-lookup or a substitution override object keeps the context: the
\* produced node is made of the translations of the sub-values under the
\* context of the call, a sequence, Simple mapping or map-lookup succeeds
\* exactly when they all do, and an Array or Object is tagged with the call's
\* complexity; so a mapping inside a sequence under Complex(T) comes out as
\* Object(Complex(T), ...).
C9_ContextKept ==
    LET v == resource_value
        rt == resource_translator
        tr(x) == translate_resource(x, rt) IN
    /\ Translated("Array") =>
        /\ translated.kind = "Ok" <=> \A i \in 1..Len(v.items) : tr(v.items[i]).kind = "Ok"
        /\ translated.kind = "Ok" =>
            /\ translated.ir = IrArray(rt.complexity,
                                [i \in 1..Len(v.items) |-> tr(v.items[i]).ir])
            /\ \A i \in 1..Len(v.items) :
                v.items[i].tag = "Object" =>
                    translated.ir.items[i].complexity = rt.complexity
    /\ (Translated("Object") /\ rt.complexity.kind = "Simple") =>
        /\ translated.kind = "Ok"
            <=> \A i \in 1..Len(v.entries) : tr(v.entries[i][2]).kind = "Ok"
        /\ translated.kind = "Ok" =>
            translated.ir = IrObject(rt.complexity,
                                [k \in Keys(v.entries) |-> tr(ValueOf(v.entries, k)).ir])
    /\ (Translated("Object") /\ translated.kind = "Ok") =>
        translated.ir.complexity = rt.complexity
    /\ (Translated("If") /\ translated.kind = "Ok") =>
        translated.ir = IrIf(v.bool_expr.s, tr(v.true_expr).ir, tr(v.false_expr).ir)
    /\ (Translated("Join") /\ translated.kind = "Ok") =>
        translated.ir.irs = [i \in 1..(Len(v.x) - 1) |-> tr(v.x[i + 1]).ir]
    /\ Translated("FindInMap") =>
        /\ translated.kind = "Ok"
            <=> (tr(v.mapper).kind = "Ok" /\ tr(v.first).kind = "Ok"
                    /\ tr(v.second).kind = "Ok")
        /\ translated.kind = "Ok" =>
            translated.ir = IrMap(tr(v.mapper).ir, tr(v.first).ir, tr(v.second).ir)
    /\ (Translated("Sub") /\ translated.kind = "Ok") =>
        /\ \A r \in ChildResults(v, rt) : r.kind = "Ok"
        /\ \A i \in 1..Len(translated.ir.items) :
            LET frag == sub_parse_tree(v.arr[1].s).vars[i]
                js == Overriding(v.arr, frag.text) IN
            (frag.kind = "Variable" /\ js # {}) =>
                LET val == ValueOf(v.arr[Greatest(js)].entries, frag.text) IN
                /\ translated.ir.items[i] = tr(val).ir
                /\ val.tag = "Object" =>
                        translated.ir.items[i].complexity = rt.complexity

\* C9's case: a mapping inside a sequence under Complex(XProp) was traversed
\* per XProp
C9_Witness ==
    /\ Translated("Array")
    /\ resource_translator.complexity = Complex("XProp")
    /\ resource_value = RvArray(<<QvObject, RvString("v")>>)
    /\ translated.kind = "Ok"
    /\ translated.ir.items[1] =
        IrObject(Complex("XProp"), [k \in {"Q"} |-> IrString("v")])

\* C10: a join or a substitution with an empty operand list returns an error
\* value that says the first element must be a string.
C10_EmptyOperandsIsError ==
    \/ ~(op = "translate_resource")
    \/ ~(\/ resource_value.tag = "Join" /\ resource_value.x = <<>>
         \/ resource_value.tag = "Sub" /\ resource_value.arr = <<>>)
    \/ translated.kind = "Err"

====
